---- MODULE Spec2Model ----
(***************************************************************************)
(* AvicBotChat supervisor (avicbot.py): the .env loader, the child         *)
(* spawner, the wait loop with its aggregate exit code, and the            *)
(* KeyboardInterrupt path that terminates, waits on and kills the          *)
(* children.                                                               *)
(*                                                                         *)
(* Text is a sequence of one-character strings; the environment is a       *)
(* function from keys (text) to values (text).                             *)
(***************************************************************************)
EXTENDS Integers, Sequences, FiniteSets, TLC

\* ------------------------------------------------------------------ bounds

\* Longest .env content (in characters) drawn by InitEnv from Alphabet.
MaxLen == 5

\* Longest value v of the one-line contents K=v drawn by InitEnv from
\* ValueAlphabet.
MaxVal == 5

\* Longest .env content drawn by InitEnv from BreakAlphabet.
MaxBreakLen == 5

\* Longest .env content drawn by InitEnv from EdgeAlphabet.
MaxEdgeLen == 5

\* KeyboardInterrupts delivered to the supervisor in one run.
MaxInterrupts == 2

\* Most arguments on a command line.
MaxArgs == 3

\* ------------------------------------------------------------------ text

\* Characters the .env contents are built from: a letter, the separator,
\* both quote characters, a blank, the comment mark and the line break.
Alphabet == {"K", "=", "\"", "'", " ", "#", "\n"}

\* Characters of the values of the one-line contents K=v.
ValueAlphabet == {"K", "\"", "'", " "}

\* Characters of the .env contents with tabs and line boundaries other
\* than the line feed: two letters, the separator, the tab, the carriage
\* return, the form feed and the line feed.
BreakAlphabet == {"K", "Q", "=", "\t", "\r", "\f", "\n"}

\* The character U+0000, which no environment variable can hold.
Nul == "\\x00"

\* Characters of the .env contents os.environ treats in a way of its own:
\* a letter in both cases, the separator, the character U+0000 and the
\* line feed.
EdgeAlphabet == {"K", "k", "=", Nul, "\n"}

\* str.strip() with no argument removes the characters str.isspace() is
\* true of. A character TLA+ has no escape for is written as the text of
\* its Python escape.
Whitespace ==
    {" ", "\t", "\n", "\r", "\f", "\\v",
     "\\x1c", "\\x1d", "\\x1e", "\\x1f", "\\x85", "\\xa0",
     "\\u1680", "\\u2000", "\\u2001", "\\u2002", "\\u2003", "\\u2004",
     "\\u2005", "\\u2006", "\\u2007", "\\u2008", "\\u2009", "\\u200a",
     "\\u2028", "\\u2029", "\\u202f", "\\u205f", "\\u3000"}

\* The line boundaries of str.splitlines(), next to the pair "\r\n".
LineBreaks ==
    {"\n", "\r", "\f", "\\v", "\\x1c", "\\x1d", "\\x1e", "\\x85",
     "\\u2028", "\\u2029"}

\* Path.read_text (line 38) opens the file in text mode: "\r\n" and a lone
\* "\r" are read as "\n".
RECURSIVE read_text(_)
read_text(s) ==
    IF s = <<>>
    THEN <<>>
    ELSE IF Head(s) = "\r"
         THEN <<"\n">> \o read_text(IF Len(s) >= 2 /\ s[2] = "\n"
                                     THEN Tail(Tail(s))
                                     ELSE Tail(s))
         ELSE <<Head(s)>> \o read_text(Tail(s))

\* The characters line 52 accepts as a wrapping quote.
Quotes == {"\"", "'"}

RECURSIVE LStrip(_)
LStrip(s) ==
    IF s # <<>> /\ Head(s) \in Whitespace THEN LStrip(Tail(s)) ELSE s

RECURSIVE RStrip(_)
RStrip(s) ==
    IF s # <<>> /\ s[Len(s)] \in Whitespace
    THEN RStrip(SubSeq(s, 1, Len(s) - 1))
    ELSE s

\* str.strip()
Strip(s) == RStrip(LStrip(s))

\* str.splitlines(): a line boundary ends a line, "\r\n" counts as one
\* boundary; no empty last line is added.
RECURSIVE SplitFrom(_, _, _)
SplitFrom(s, cur, acc) ==
    IF s = <<>>
    THEN IF cur = <<>> THEN acc ELSE Append(acc, cur)
    ELSE IF Head(s) = "\r" /\ Len(s) >= 2 /\ s[2] = "\n"
         THEN SplitFrom(Tail(Tail(s)), <<>>, Append(acc, cur))
         ELSE IF Head(s) \in LineBreaks
              THEN SplitFrom(Tail(s), <<>>, Append(acc, cur))
              ELSE SplitFrom(Tail(s), Append(cur, Head(s)), acc)

splitlines(s) == SplitFrom(s, <<>>, <<>>)

\* "=" in line
HasEq(line) == \E i \in 1..Len(line) : line[i] = "="

\* Index of the first "=" of a line that has one.
FirstEq(line) ==
    CHOOSE i \in 1..Len(line) :
        /\ line[i] = "="
        /\ \A j \in 1..(i - 1) : line[j] # "="

\* line.split("=", 1), each part stripped (lines 45-47).
SplitKey(line) == Strip(SubSeq(line, 1, FirstEq(line) - 1))
SplitVal(line) == Strip(SubSeq(line, FirstEq(line) + 1, Len(line)))

\* Lines 39-49 without the comment test of line 40.
SkippedNoComment(raw) ==
    LET line == Strip(raw) IN
        \/ line = <<>>
        \/ ~HasEq(line)
        \/ SplitKey(line) = <<>>

\* Lines 39-49: the stripped line is skipped when it is empty, a comment,
\* has no "=" or has an empty key.
Skipped(raw) ==
    LET line == Strip(raw) IN
        \/ line = <<>>
        \/ Head(line) = "#"
        \/ ~HasEq(line)
        \/ SplitKey(line) = <<>>

\* Lines 51-53: strip one pair of surrounding quotes.
Unquote(val) ==
    IF Len(val) >= 2 /\ val[1] = val[Len(val)] /\ val[1] \in Quotes
    THEN SubSeq(val, 2, Len(val) - 1)
    ELSE val

HasNul(s) == \E i \in 1..Len(s) : s[i] = Nul

\* str.upper(), for the letters of the model's texts.
Upper(c) ==
    CASE c = "k" -> "K"
      [] c = "q" -> "Q"
      [] c = "x" -> "X"
      [] OTHER -> c

\* os.environ's encodekey: on Windows the names of the variables are kept
\* in upper case, elsewhere as they are.
RECURSIVE upper(_)
upper(s) ==
    IF s = <<>> THEN <<>> ELSE <<Upper(Head(s))>> \o upper(Tail(s))

encodekey(key, px) == IF px THEN key ELSE upper(key)

\* The exceptions _load_dotenv lets through.
LoaderErrors == {"ValueError", "PermissionError", "UnicodeDecodeError"}

\* Line 55 as os.environ[key] = val.
SetAlways(env, key, val, px) ==
    [env |-> [k \in DOMAIN env \cup {encodekey(key, px)} |->
                 IF k = encodekey(key, px) THEN val ELSE env[k]],
     error |-> "none"]

\* os.environ.setdefault(key, val), line 55: a key that is defined (on
\* Windows whatever its case) is left alone; else the variable is set with
\* putenv, which raises ValueError for a key or a value that holds U+0000
\* and then leaves os.environ as it was.
SetDefault(env, key, val, px) ==
    IF encodekey(key, px) \in DOMAIN env
    THEN [env |-> env, error |-> "none"]
    ELSE IF HasNul(key) \/ HasNul(val)
         THEN [env |-> env, error |-> "ValueError"]
         ELSE [env |-> [k \in DOMAIN env \cup {encodekey(key, px)} |->
                           IF k = encodekey(key, px) THEN val ELSE env[k]],
               error |-> "none"]

\* One iteration of the loop of lines 38-55: os.environ after it, and the
\* exception it raised.
LoadLine(env, raw, px) ==
    IF Skipped(raw)
    THEN [env |-> env, error |-> "none"]
    ELSE SetDefault(env, SplitKey(Strip(raw)), Unquote(SplitVal(Strip(raw))),
                    px)

\* The loop of lines 38-55: it ends with the first line that raises, and
\* what the lines before it have set stays set.
RECURSIVE LoadLines(_, _, _)
LoadLines(env, lines, px) ==
    IF lines = <<>>
    THEN [env |-> env, error |-> "none"]
    ELSE LET first == LoadLine(env, Head(lines), px) IN
         IF first.error # "none"
         THEN first
         ELSE LoadLines(first.env, Tail(lines), px)

\* A .env path that does not exist or is not a regular file (line 35).
NoFile == <<"NoFile">>

\* A .env file the supervisor has no permission to read, and one whose
\* bytes are not UTF-8: read_text (line 38) raises.
Unreadable == <<"Unreadable">>
NotUtf8 == <<"NotUtf8">>

\* _load_dotenv(dotenv_path): the environment it leaves behind and the
\* exception it raised, "none" when it returned.
load_dotenv(env, file, px) ==
    IF file = NoFile
    THEN [env |-> env, error |-> "none"]
    ELSE IF file = Unreadable
         THEN [env |-> env, error |-> "PermissionError"]
         ELSE IF file = NotUtf8
              THEN [env |-> env, error |-> "UnicodeDecodeError"]
              ELSE LoadLines(env, splitlines(read_text(file)), px)

\* ------------------------------------------------------------------ state

\* The two bots, in the order main requests them (lines 133-136).
RequestOrder == <<"twitch", "wikimedia">>
Children == {"twitch", "wikimedia"}

\* Exit codes a bot ends with on its own.
ExitCodes == {0, 3, 5}

\* Popen.returncode of a child ended by SIGTERM / SIGKILL, and the exit code
\* TerminateProcess gives a child on Windows.
SigTermCode == -15
SigKillCode == -9
NtTerminateCode == 1

\* SystemExit codes of parse_args (line 121): after the version or the help
\* was printed, and after the error message for a command line it rejects.
ParserExit == 0
ParserError == 2

\* Exit codes of main (lines 128 and 160) and the timeout of line 151.
UsageExit == 2
InterruptExit == 130
GracePeriod == 5

EmptyEnv == [k \in {} |-> <<>>]

\* The process group of the supervisor, the one a Ctrl-C of its terminal
\* (console) is delivered to.
SupervisorGroup == "supervisor"

VARIABLES
    pc,          \* where main is: parse, load, check, spawn (lines 133,
                 \* 135), spawning (inside _spawn), append, wait
                 \* (line 140), waiting (inside the wait of line 141), fold
                 \* (line 142), terminate, drain (line 150), draining
                 \* (inside the wait of line 151), kill, return130,
                 \* returned, raised
    argv,        \* the command line: the arguments in the order given
    args,        \* parsed flags: [twitch, wikimedia], once past line 121
    exists,      \* exists[c]: script_path.exists() of bot c's script
    posix,       \* os.name != "nt"
    dotenv,      \* content of ROOT/.env, or NoFile
    environ,     \* os.environ
    environ0,    \* os.environ when main started
    procs,       \* the list procs (line 130), as bot names
    child,       \* per bot: the OS process and its Popen object
    idx,         \* position in RequestOrder (spawn) or in procs (loops)
    exit_code,   \* line 139
    result,      \* value main returned, once pc = "returned"; the code of
                 \* the SystemExit, once main raised one
    error,       \* exception main raised, once pc = "raised"
    interrupts,  \* KeyboardInterrupts delivered so far
    interruptPc, \* pc at the first KeyboardInterrupt
    running0,    \* bots that were running at the first KeyboardInterrupt
    attempted,   \* bots _spawn was called for
    waited,      \* bots Popen.wait was called on
    folds,       \* assignments exit_code = rc made by line 143
    clock,       \* seconds since the except block was entered
    deadline     \* clock value at which the wait of line 151 times out

vars == <<pc, argv, args, exists, posix, dotenv, environ, environ0, procs, child,
          idx, exit_code, result, error, interrupts, interruptPc, running0,
          attempted, waited, folds, clock, deadline>>

\* ------------------------------------------------------------------ initial state

\* A bot that has not been spawned.
NoChild ==
    [state |-> "none",      \* OS process: none, running, exited
     rc |-> 0,              \* exit status of the process, once exited
     reaped |-> FALSE,      \* Popen.returncode is not None
     returncode |-> 0,      \* Popen.returncode, once reaped
     spawns |-> 0,          \* processes launched for this bot
     term |-> FALSE,        \* a termination request was sent
     kill |-> FALSE,        \* a forced kill was sent
     pgid |-> "none",       \* process group: its own (the bot's name) or
                            \* the supervisor's
     sigint |-> FALSE,      \* received the SIGINT sent to the supervisor
     env |-> EmptyEnv]      \* env= passed to Popen (line 96)

\* Environments main starts in.
StartEnvs == {EmptyEnv, [k \in {<<"K">>} |-> <<"x">>]}

\* .env files of the supervisor runs: none, one that sets K, one whose
\* value for K holds U+0000, one that cannot be read and one that cannot be
\* decoded.
RunFiles ==
    {NoFile, <<"K", "=", "\"", "K", "\"">>, <<"K", "=", Nul>>, Unreadable,
     NotUtf8}

\* All texts over the characters A of length at most n.
RECURSIVE TextsOver(_, _)
TextsOver(A, n) ==
    IF n = 0
    THEN {<<>>}
    ELSE LET shorter == TextsOver(A, n - 1) IN
         shorter \cup {Append(t, c) : t \in {u \in shorter : Len(u) = n - 1},
                                      c \in A}

\* .env contents of the loader runs, family by family: every text over
\* Alphabet up to MaxLen characters, every text over BreakAlphabet up to
\* MaxBreakLen characters, every line K=v with v over ValueAlphabet up to
\* MaxVal characters, every text over EdgeAlphabet up to MaxEdgeLen
\* characters, and the files without content.
LoaderFiles ==
    << TextsOver(Alphabet, MaxLen),
       TextsOver(BreakAlphabet, MaxBreakLen),
       {<<"K", "=">> \o v : v \in TextsOver(ValueAlphabet, MaxVal)},
       TextsOver(EdgeAlphabet, MaxEdgeLen),
       {NoFile, Unreadable, NotUtf8} >>

\* The platforms each family of LoaderFiles is loaded on (TRUE: POSIX).
\* The families whose keys hold no lower-case letter load alike on both.
LoaderPlatforms ==
    << {TRUE}, {TRUE}, {TRUE}, BOOLEAN, BOOLEAN >>

\* The namespace of a command line without bot flags.
NoFlags == [twitch |-> FALSE, wikimedia |-> FALSE]

\* The arguments of the command lines: the two bot flags, --version, -h,
\* an argument the parser does not know, a flag given a value (--Twitch=1
\* and -hx are treated like it) and the end-of-options mark.
Arguments ==
    {"--Twitch", "--Wikimedia", "--version", "-h", "--unknown",
     "--version=1", "--"}

\* Arguments a is given n times on the command line cl.
Times(cl, a) == Cardinality({i \in 1..Len(cl) : cl[i] = a})

\* All sequences of at most n arguments.
RECURSIVE ArgumentLists(_)
ArgumentLists(n) ==
    IF n = 0
    THEN {<<>>}
    ELSE LET shorter == ArgumentLists(n - 1) IN
         shorter \cup {Append(cl, a) : cl \in {u \in shorter : Len(u) = n - 1},
                                       a \in Arguments}

\* Command lines: up to MaxArgs arguments in any order, each bot flag given
\* at most once.
CommandLines ==
    {cl \in ArgumentLists(MaxArgs) :
        Times(cl, "--Twitch") <= 1 /\ Times(cl, "--Wikimedia") <= 1}

InitCommon ==
    /\ environ0 = environ
    /\ procs = <<>>
    /\ child = [c \in Children |-> NoChild]
    /\ idx = 1
    /\ exit_code = 0
    /\ result = 0
    /\ error = "none"
    /\ interrupts = 0
    /\ interruptPc = "none"
    /\ running0 = {}
    /\ attempted = {}
    /\ waited = {}
    /\ folds = 0
    /\ clock = 0
    /\ deadline = 0

\* A supervisor run: any command line, any set of scripts present, either
\* platform.
Init ==
    /\ pc = "parse"
    /\ argv \in CommandLines
    /\ args = NoFlags
    /\ exists \in [Children -> BOOLEAN]
    /\ posix \in BOOLEAN
    /\ dotenv \in RunFiles
    /\ environ \in StartEnvs
    /\ InitCommon

\* A run of the loader alone, on each of LoaderFiles: main is at line 124.
InitEnv ==
    /\ pc = "load"
    /\ argv = <<>>
    /\ args = NoFlags
    /\ exists = [c \in Children |-> TRUE]
    /\ \E i \in DOMAIN LoaderFiles :
          /\ dotenv \in LoaderFiles[i]
          /\ posix \in LoaderPlatforms[i]
    /\ environ \in StartEnvs
    /\ InitCommon

\* ------------------------------------------------------------------ main: startup

\* argparse going through the arguments from left to right, with the
\* namespace ns filled so far: a bot flag is stored; --version and -h print
\* and raise SystemExit(0) when the parser comes to them; a flag given a
\* value makes it raise SystemExit(2) on the spot; an argument it does not
\* know is set aside (extras), and so is "--" with everything after it;
\* at the end anything set aside makes it raise SystemExit(2).
RECURSIVE consume(_, _, _, _)
consume(rest, ns, extras, options) ==
    IF rest = <<>>
    THEN IF extras
         THEN [raised |-> TRUE, code |-> ParserError, ns |-> ns]
         ELSE [raised |-> FALSE, code |-> 0, ns |-> ns]
    ELSE IF ~options \/ Head(rest) = "--unknown"
         THEN consume(Tail(rest), ns, TRUE, options)
         ELSE IF Head(rest) = "--"
              THEN consume(Tail(rest), ns, TRUE, FALSE)
              ELSE IF Head(rest) = "--Twitch"
                   THEN consume(Tail(rest), [ns EXCEPT !.twitch = TRUE],
                                extras, options)
                   ELSE IF Head(rest) = "--Wikimedia"
                        THEN consume(Tail(rest),
                                     [ns EXCEPT !.wikimedia = TRUE],
                                     extras, options)
                        ELSE IF Head(rest) \in {"--version", "-h"}
                             THEN [raised |-> TRUE, code |-> ParserExit,
                                   ns |-> ns]
                             ELSE [raised |-> TRUE, code |-> ParserError,
                                   ns |-> ns]

\* _build_parser().parse_args(argv): whether it raised SystemExit, with
\* which code, and the namespace.
parse_args(cl) == consume(cl, NoFlags, FALSE, TRUE)

\* Line 121: parse_args returns the namespace or ends the run.
ParseArgs ==
    /\ pc = "parse"
    /\ LET parsed == parse_args(argv) IN
          IF parsed.raised
          THEN /\ pc' = "raised"
               /\ error' = "SystemExit"
               /\ result' = parsed.code
               /\ UNCHANGED args
          ELSE /\ pc' = "load"
               /\ args' = parsed.ns
               /\ UNCHANGED <<error, result>>
    /\ UNCHANGED <<argv, exists, posix, dotenv, environ, environ0, procs,
                   child, idx, exit_code, interrupts, interruptPc, running0,
                   attempted, waited, folds, clock, deadline>>

\* Line 124: _load_dotenv(ROOT / ".env"). main catches nothing here: an
\* exception of the loader ends the run.
LoadDotenv ==
    /\ pc = "load"
    /\ LET loaded == load_dotenv(environ, dotenv, posix) IN
          /\ environ' = loaded.env
          /\ IF loaded.error = "none"
             THEN /\ pc' = "check"
                  /\ UNCHANGED error
             ELSE /\ pc' = "raised"
                  /\ error' = loaded.error
    /\ UNCHANGED <<argv, args, exists, posix, dotenv, environ0, procs, child, idx,
                   exit_code, result, interrupts, interruptPc,
                   running0, attempted, waited, folds, clock, deadline>>

\* Line 126.
NoneRequested(a) == ~a.twitch /\ ~a.wikimedia

\* The flag of bot c was given (lines 133, 135).
Requested(c) == IF c = "twitch" THEN args.twitch ELSE args.wikimedia

\* Lines 126-130: usage error, or on to the try block.
CheckArgs ==
    /\ pc = "check"
    /\ IF NoneRequested(args)
       THEN /\ pc' = "returned"
            /\ result' = UsageExit
       ELSE /\ pc' = "spawn"
            /\ UNCHANGED result
    /\ idx' = 1
    /\ UNCHANGED <<argv, args, exists, posix, dotenv, environ, environ0, procs,
                   child, exit_code, error, interrupts, interruptPc,
                   running0, attempted, waited, folds, clock, deadline>>

\* pc and idx after the spawn phase is through with RequestOrder[i]:
\* the next bot, or line 139 and the head of the loop of line 140.
AfterSpawn(i, ps) ==
    IF i < Len(RequestOrder)
    THEN /\ pc' = "spawn"
         /\ idx' = i + 1
         /\ UNCHANGED exit_code
    ELSE /\ pc' = "wait"
         /\ idx' = 1
         /\ exit_code' = 0

\* Lines 133, 135: the flag of this bot was not given.
SkipSpawn ==
    /\ pc = "spawn"
    /\ ~Requested(RequestOrder[idx])
    /\ AfterSpawn(idx, procs)
    /\ UNCHANGED <<argv, args, exists, posix, dotenv, environ, environ0, procs,
                   child, result, error, interrupts, interruptPc, running0,
                   attempted, waited, folds, clock, deadline>>

\* Lines 93-98 with the environment the supervisor was started with, as a
\* copy taken before _load_dotenv ran would be.
LaunchStartEnv(ch, env) ==
    [ch EXCEPT !.state = "running", !.spawns = ch.spawns + 1, !.env = environ0]

\* Lines 93-98: Popen launches the bot with a copy of os.environ.
Launch(ch, env) ==
    [ch EXCEPT !.state = "running", !.spawns = ch.spawns + 1, !.env = env]

\* Lines 134, 136: main calls _spawn for a bot whose flag was given.
SpawnCall ==
    /\ pc = "spawn"
    /\ Requested(RequestOrder[idx])
    /\ attempted' = attempted \cup {RequestOrder[idx]}
    /\ pc' = "spawning"
    /\ UNCHANGED <<argv, args, exists, posix, dotenv, environ, environ0, procs,
                   child, idx, exit_code, result, error, interrupts,
                   interruptPc, running0, waited, folds, clock, deadline>>

\* _spawn without the check of line 85: the interpreter is launched on a
\* script that is not there.
SpawnUnchecked ==
    /\ pc = "spawning"
    /\ ~exists[RequestOrder[idx]]
    /\ child' = [child EXCEPT ![RequestOrder[idx]] = Launch(@, environ)]
    /\ pc' = "append"
    /\ UNCHANGED <<argv, args, exists, posix, dotenv, environ, environ0, procs,
                   idx, exit_code, result, error, interrupts, interruptPc,
                   running0, attempted, waited, folds, clock, deadline>>

\* Lines 85-86 in a main that sends the bots it has launched the termination
\* request before the error leaves it.
SpawnMissingCleanup ==
    /\ pc = "spawning"
    /\ ~exists[RequestOrder[idx]]
    /\ child' = [c \in Children |->
                    IF child[c].state = "running"
                    THEN [child[c] EXCEPT !.term = TRUE]
                    ELSE child[c]]
    /\ pc' = "raised"
    /\ error' = "FileNotFoundError"
    /\ UNCHANGED <<argv, args, exists, posix, dotenv, environ, environ0, procs,
                   idx, exit_code, result, interrupts, interruptPc,
                   running0, attempted, waited, folds, clock, deadline>>

\* Lines 85-86: _spawn raises FileNotFoundError, which main does not catch.
SpawnMissing ==
    /\ pc = "spawning"
    /\ ~exists[RequestOrder[idx]]
    /\ pc' = "raised"
    /\ error' = "FileNotFoundError"
    /\ UNCHANGED <<argv, args, exists, posix, dotenv, environ, environ0, procs,
                   child, idx, exit_code, result, interrupts, interruptPc,
                   running0, attempted, waited, folds, clock, deadline>>

\* Lines 88-91 with the session flag left out: the bot stays in the group
\* of the supervisor.
SessionInherited(c, px) == SupervisorGroup

\* Lines 88-91: start_new_session=True makes the bot the leader of a new
\* session and process group, whose id is the bot's pid; on Windows no flag
\* is passed and the bot stays in the console group of the supervisor.
Session(c, px) == IF px THEN c ELSE SupervisorGroup

\* Lines 85-98: the script is there and Popen launches the bot.
Spawn ==
    /\ pc = "spawning"
    /\ exists[RequestOrder[idx]]
    /\ child' = [child EXCEPT ![RequestOrder[idx]] =
                     [Launch(@, environ) EXCEPT
                         !.pgid = Session(RequestOrder[idx], posix)]]
    /\ pc' = "append"
    /\ UNCHANGED <<argv, args, exists, posix, dotenv, environ, environ0, procs,
                   idx, exit_code, result, error, interrupts, interruptPc,
                   running0, attempted, waited, folds, clock, deadline>>

\* Lines 134, 136: procs.append(...) of the Popen object _spawn returned.
AppendProc ==
    /\ pc = "append"
    /\ procs' = Append(procs, RequestOrder[idx])
    /\ AfterSpawn(idx, procs')
    /\ UNCHANGED <<argv, args, exists, posix, dotenv, environ, environ0, child,
                   result, error, interrupts, interruptPc, running0,
                   attempted, waited, folds, clock, deadline>>

\* ------------------------------------------------------------------ the bots

\* A running bot ends on its own with one of ExitCodes, or, once it was sent
\* SIGTERM, by the signal's default action.
EndsWith(ch) ==
    ExitCodes \cup (IF ch.term /\ posix THEN {SigTermCode} ELSE {})

\* A bot ends, whatever main is doing and also after main has ended.
ChildExit(c) ==
    /\ child[c].state = "running"
    /\ \E code \in EndsWith(child[c]) :
          child' = [child EXCEPT ![c].state = "exited", ![c].rc = code]
    /\ UNCHANGED <<pc, argv, args, exists, posix, dotenv, environ, environ0, procs,
                   idx, exit_code, result, error, interrupts, interruptPc,
                   running0, attempted, waited, folds, clock, deadline>>

\* Popen.poll() / Popen.wait() collecting the status of an exited process.
Reap(ch) ==
    IF ch.state = "exited" /\ ~ch.reaped
    THEN [ch EXCEPT !.reaped = TRUE, !.returncode = ch.rc]
    ELSE ch

\* A running bot that was sent what it cannot ignore: SIGKILL, or
\* TerminateProcess on Windows (proc.terminate() and p.kill() alike).
Doomed(ch, px) == ch.state = "running" /\ (ch.kill \/ (ch.term /\ ~px))

\* os.killpg, terminate() and kill() return once the signal is sent, not
\* once the bot is gone: the bot dies some time later, also after main ended.
SignalEnds(c) ==
    /\ Doomed(child[c], posix)
    /\ child' = [child EXCEPT
                    ![c].state = "exited",
                    ![c].rc = IF posix THEN SigKillCode ELSE NtTerminateCode]
    /\ UNCHANGED <<pc, argv, args, exists, posix, dotenv, environ, environ0,
                   procs, idx, exit_code, result, error, interrupts,
                   interruptPc, running0, attempted, waited, folds, clock,
                   deadline>>

\* ------------------------------------------------------------------ main: waiting

\* Lines 142-143.
FoldLastWins(ec, rc) == IF rc # 0 THEN rc ELSE ec

Fold(ec, rc) == IF rc # 0 /\ ec = 0 THEN rc ELSE ec

\* Line 140: the loop over procs is through.
WaitLoopDoneEarly(i, ps, ec) == i > Len(ps) \/ ec # 0

WaitLoopDone(i, ps, ec) == i > Len(ps)

\* Line 141: main calls p.wait() on the bot the loop is at.
WaitCall ==
    /\ pc = "wait"
    /\ ~WaitLoopDone(idx, procs, exit_code)
    /\ waited' = waited \cup {procs[idx]}
    /\ pc' = "waiting"
    /\ UNCHANGED <<argv, args, exists, posix, dotenv, environ, environ0, procs,
                   child, idx, exit_code, result, error, interrupts,
                   interruptPc, running0, attempted, folds, clock, deadline>>

\* A wait that launches the bot again when it exited with a failure.
WaitChildRestart ==
    /\ pc = "waiting"
    /\ child[procs[idx]].state = "exited"
    /\ IF child[procs[idx]].rc # 0
       THEN /\ child' = [child EXCEPT ![procs[idx]] = Launch(@, environ)]
            /\ UNCHANGED pc
       ELSE /\ child' = [child EXCEPT ![procs[idx]] = Reap(@)]
            /\ pc' = "fold"
    /\ UNCHANGED <<argv, args, exists, posix, dotenv, environ, environ0, procs,
                   idx, exit_code, result, error, interrupts, interruptPc,
                   running0, attempted, waited, folds, clock, deadline>>

\* A wait that collects whichever bot of the remaining ones has exited.
WaitChildAnyExited ==
    /\ pc = "waiting"
    /\ \E j \in idx..Len(procs) :
         /\ child[procs[j]].state = "exited"
         /\ child' = [child EXCEPT ![procs[j]] = Reap(@)]
         /\ pc' = IF j = idx THEN "fold" ELSE pc
    /\ UNCHANGED <<argv, args, exists, posix, dotenv, environ, environ0, procs,
                   idx, exit_code, result, error, interrupts, interruptPc,
                   running0, attempted, waited, folds, clock, deadline>>

\* Line 141: p.wait() returns once the bot has exited; the status is
\* collected and rc is Popen.returncode.
WaitChild ==
    /\ pc = "waiting"
    /\ child[procs[idx]].state = "exited"
    /\ child' = [child EXCEPT ![procs[idx]] = Reap(@)]
    /\ pc' = "fold"
    /\ UNCHANGED <<argv, args, exists, posix, dotenv, environ, environ0, procs,
                   idx, exit_code, result, error, interrupts, interruptPc,
                   running0, attempted, waited, folds, clock, deadline>>

\* Lines 142-143 with the rc of line 141, and on to the next bot.
FoldRc ==
    /\ pc = "fold"
    /\ exit_code' = Fold(exit_code, child[procs[idx]].returncode)
    /\ folds' = IF exit_code' # exit_code THEN folds + 1 ELSE folds
    /\ idx' = idx + 1
    /\ pc' = "wait"
    /\ UNCHANGED <<argv, args, exists, posix, dotenv, environ, environ0, procs,
                   child, result, error, interrupts, interruptPc, running0,
                   attempted, waited, clock, deadline>>

\* Line 144.
ReturnAggregate ==
    /\ pc = "wait"
    /\ WaitLoopDone(idx, procs, exit_code)
    /\ pc' = "returned"
    /\ result' = exit_code
    /\ UNCHANGED <<argv, args, exists, posix, dotenv, environ, environ0, procs,
                   child, idx, exit_code, error, interrupts, interruptPc,
                   running0, attempted, waited, folds, clock, deadline>>

\* ------------------------------------------------------------------ KeyboardInterrupt

\* Bots whose process is running.
Running == {c \in Children : child[c].state = "running"}

\* The SIGINT that interrupts the supervisor is sent to its process group:
\* every running process of that group receives it.
Broadcast(ch) ==
    IF ch.state = "running" /\ ch.pgid = SupervisorGroup
    THEN [ch EXCEPT !.sigint = TRUE]
    ELSE ch

\* main is at lines 133-136.
SpawnPhase == {"spawn", "spawning", "append"}

\* main is in the loop of lines 140-143.
WaitPhase == {"wait", "waiting", "fold"}

\* main is inside the try block of lines 132-144.
InTry == pc \in SpawnPhase \cup WaitPhase

\* main is inside the except block of lines 146-160.
InExcept == pc \in {"terminate", "drain", "draining", "kill", "return130"}

\* main is blocked inside Popen.wait (line 141 or 151).
InWait == pc \in {"waiting", "draining"}

\* main is inside Popen(...) of lines 93-98: _spawn has found the script.
InPopen == pc = "append" \/ (pc = "spawning" /\ exists[RequestOrder[idx]])

\* KeyboardInterrupts that can arrive as one event. Inside Popen.wait a
\* second one can follow while the handler of wait deals with the first, and
\* inside Popen.__init__ while its except block cleans up after the first:
\* one KeyboardInterrupt then reaches main.
AtOnce == IF InWait \/ InPopen THEN {1, 2} ELSE {1}

\* The ways a running process can have ended.
Ended(ch, px) ==
    IF ch.state # "running"
    THEN {}
    ELSE {[ch EXCEPT !.state = "exited", !.rc = code] : code \in EndsWith(ch)}
         \cup (IF Doomed(ch, px)
               THEN {[ch EXCEPT !.state = "exited",
                                !.rc = IF px THEN SigKillCode
                                             ELSE NtTerminateCode]}
               ELSE {})

\* What KeyboardInterrupts can make of the bots. Raised at the entry of
\* Popen.wait, before its try block, a KeyboardInterrupt leaves wait at
\* once and the bot stays as it is, its status not collected. Raised inside
\* the try block it is caught by wait, which waits once more, the first
\* time for up to 0.25 s (less than the clock of the model counts),
\* collects the status of the bot if it has exited by then, and raises the
\* KeyboardInterrupt again; a second KeyboardInterrupt leaves that wait at
\* once, before or after the status was collected.
Interrupted ==
    LET asis == [c \in Children |-> Broadcast(child[c])]
        bot == asis[procs[idx]]
    IN IF InWait
       THEN {asis} \cup {[asis EXCEPT ![procs[idx]] = Reap(e)] :
                            e \in {bot} \cup Ended(bot, posix)}
       ELSE {asis}

\* Line 146 catches a KeyboardInterrupt raised inside the try block.
InterruptCaught(n) ==
    /\ InTry
    /\ interrupts + n <= MaxInterrupts
    /\ interrupts' = interrupts + n
    /\ interruptPc' = IF interrupts = 0 THEN pc ELSE interruptPc
    /\ running0' = IF interrupts = 0 THEN Running ELSE running0
    /\ \E bots \in Interrupted : child' = bots
    /\ pc' = IF procs = <<>> THEN "return130" ELSE "terminate"
    /\ idx' = 1
    /\ clock' = 0
    /\ UNCHANGED <<argv, args, exists, posix, dotenv, environ, environ0, procs,
                   exit_code, result, error, attempted, waited, folds,
                   deadline>>

\* A KeyboardInterrupt raised before the try block or inside the except
\* block: no handler of main catches it ("except Exception" of lines 113,
\* 116, 152, 158 does not, KeyboardInterrupt is a BaseException).
InterruptUncaught(n) ==
    /\ pc \in {"parse", "load", "check"} \/ InExcept
    /\ interrupts + n <= MaxInterrupts
    /\ interrupts' = interrupts + n
    /\ interruptPc' = IF interrupts = 0 THEN pc ELSE interruptPc
    /\ running0' = IF interrupts = 0 THEN Running ELSE running0
    /\ \E bots \in Interrupted : child' = bots
    /\ pc' = "raised"
    /\ error' = "KeyboardInterrupt"
    /\ UNCHANGED <<argv, args, exists, posix, dotenv, environ, environ0, procs,
                   idx, exit_code, result, attempted, waited, folds, clock,
                   deadline>>

\* ------------------------------------------------------------------ main: draining

\* The bot exiting on its own between the poll of line 104 and the signal.
ExitedMeanwhile(ch) ==
    {[ch EXCEPT !.state = "exited", !.rc = code] : code \in ExitCodes}

\* _terminate without the poll of line 104: the signal is sent to the pid
\* of the Popen object whatever became of the bot.
TerminateOutcomesNoPoll(ch, px) == {[ch EXCEPT !.term = TRUE]}

\* _terminate(proc), lines 101-117: the Popen objects it can leave behind.
\* poll() finds an exited bot and nothing is sent. A running bot is sent
\* SIGTERM through its process group (TerminateProcess on Windows). When
\* the bot exits between poll() and the signal, the signal reaches the
\* exited process, or the call raises and the fallback proc.terminate() of
\* line 115 collects the status without signalling.
TerminateOutcomes(ch, px) ==
    IF ch.state # "running"
    THEN {Reap(ch)}
    ELSE {[ch EXCEPT !.term = TRUE]}
         \cup {[e EXCEPT !.term = TRUE] : e \in ExitedMeanwhile(ch)}
         \cup {Reap(e) : e \in ExitedMeanwhile(ch)}

\* Lines 153-159: the forced kill after the wait of line 151 raised. A
\* running bot is sent SIGKILL (TerminateProcess on Windows) and main goes
\* on without waiting for it to die; sent to an exited bot the signal
\* changes nothing, or the call raises and line 158 swallows the error (on
\* Windows p.kill() then collects the status).
KillOutcomes(ch, px) ==
    IF ch.state = "running"
    THEN {[ch EXCEPT !.kill = TRUE]}
    ELSE IF px THEN {[ch EXCEPT !.kill = TRUE], ch} ELSE {Reap(ch)}

\* pc and idx when the loop of line 149 goes on after procs[i]: the next
\* bot, or line 160.
AfterDrain(i) ==
    IF i < Len(procs)
    THEN /\ pc' = "drain"
         /\ idx' = i + 1
    ELSE /\ pc' = "return130"
         /\ UNCHANGED idx

\* One loop in place of the two of lines 147-159: each bot is waited on
\* right after its own termination request.
TerminateThenWait ==
    /\ pc = "terminate"
    /\ \E out \in TerminateOutcomes(child[procs[idx]], posix) :
          child' = [child EXCEPT ![procs[idx]] = out]
    /\ pc' = "drain"
    /\ UNCHANGED <<argv, args, exists, posix, dotenv, environ, environ0, procs,
                   idx, exit_code, result, error, interrupts, interruptPc,
                   running0, attempted, waited, folds, clock, deadline>>

\* Lines 147-148: one iteration of the loop calling _terminate(p); after
\* the last one main is at the head of the loop of line 149.
Terminate ==
    /\ pc = "terminate"
    /\ \E out \in TerminateOutcomes(child[procs[idx]], posix) :
          child' = [child EXCEPT ![procs[idx]] = out]
    /\ IF idx < Len(procs)
       THEN /\ idx' = idx + 1
            /\ UNCHANGED pc
       ELSE /\ pc' = "drain"
            /\ idx' = 1
    /\ UNCHANGED <<argv, args, exists, posix, dotenv, environ, environ0, procs,
                   exit_code, result, error, interrupts, interruptPc,
                   running0, attempted, waited, folds, clock, deadline>>

\* Line 151: main calls p.wait(timeout=5) on the bot the loop is at.
DrainCall ==
    /\ pc = "drain"
    /\ waited' = waited \cup {procs[idx]}
    /\ deadline' = clock + GracePeriod
    /\ pc' = "draining"
    /\ UNCHANGED <<argv, args, exists, posix, dotenv, environ, environ0, procs,
                   child, idx, exit_code, result, error, interrupts,
                   interruptPc, running0, attempted, folds, clock>>

\* Line 151: p.wait(timeout=5) returns, the bot has exited.
DrainWaitReturn ==
    /\ pc = "draining"
    /\ child[procs[idx]].state = "exited"
    /\ child' = [child EXCEPT ![procs[idx]] = Reap(@)]
    /\ AfterDrain(idx)
    /\ UNCHANGED <<argv, args, exists, posix, dotenv, environ, environ0, procs,
                   exit_code, result, error, interrupts, interruptPc,
                   running0, attempted, waited, folds, clock, deadline>>

\* A second passes while main is blocked in the wait of line 151. A bot
\* that was sent SIGKILL or TerminateProcess is gone before that.
Tick ==
    /\ pc = "draining"
    /\ child[procs[idx]].state = "running"
    /\ \A c \in Children : ~Doomed(child[c], posix)
    /\ clock < deadline
    /\ clock' = clock + 1
    /\ UNCHANGED <<pc, argv, args, exists, posix, dotenv, environ, environ0, procs,
                   child, idx, exit_code, result, error, interrupts,
                   interruptPc, running0, attempted, waited, folds,
                   deadline>>

\* Line 151 with a wait that gives up at once, whatever time has passed.
DrainTimeoutAtOnce ==
    /\ pc = "draining"
    /\ ~child[procs[idx]].reaped
    /\ pc' = "kill"
    /\ UNCHANGED <<argv, args, exists, posix, dotenv, environ, environ0, procs,
                   child, idx, exit_code, result, error, interrupts,
                   interruptPc, running0, attempted, waited, folds, clock,
                   deadline>>

\* Line 151 as p.wait() with no timeout: TimeoutExpired is never raised.
DrainTimeoutNever ==
    /\ pc = "draining"
    /\ FALSE
    /\ UNCHANGED vars

\* Lines 151-152: the timeout elapsed, wait raises TimeoutExpired.
DrainTimeout ==
    /\ pc = "draining"
    /\ ~child[procs[idx]].reaped
    /\ clock = deadline
    /\ pc' = "kill"
    /\ UNCHANGED <<argv, args, exists, posix, dotenv, environ, environ0, procs,
                   child, idx, exit_code, result, error, interrupts,
                   interruptPc, running0, attempted, waited, folds, clock,
                   deadline>>

\* Lines 153-159.
Kill ==
    /\ pc = "kill"
    /\ \E out \in KillOutcomes(child[procs[idx]], posix) :
          child' = [child EXCEPT ![procs[idx]] = out]
    /\ AfterDrain(idx)
    /\ UNCHANGED <<argv, args, exists, posix, dotenv, environ, environ0, procs,
                   exit_code, result, error, interrupts, interruptPc,
                   running0, attempted, waited, folds, clock, deadline>>

\* Line 160 returning the partial aggregate when there is one.
ReturnPartial ==
    /\ pc = "return130"
    /\ pc' = "returned"
    /\ result' = IF exit_code # 0 THEN exit_code ELSE InterruptExit
    /\ UNCHANGED <<argv, args, exists, posix, dotenv, environ, environ0, procs,
                   child, idx, exit_code, error, interrupts, interruptPc,
                   running0, attempted, waited, folds, clock, deadline>>

\* Line 160.
Return130 ==
    /\ pc = "return130"
    /\ pc' = "returned"
    /\ result' = InterruptExit
    /\ UNCHANGED <<argv, args, exists, posix, dotenv, environ, environ0, procs,
                   child, idx, exit_code, error, interrupts, interruptPc,
                   running0, attempted, waited, folds, clock, deadline>>

\* ------------------------------------------------------------------ specifications

Next ==
    \/ ParseArgs
    \/ LoadDotenv
    \/ CheckArgs
    \/ SkipSpawn
    \/ SpawnCall
    \/ SpawnMissing
    \/ Spawn
    \/ AppendProc
    \/ \E c \in Children : ChildExit(c)
    \/ \E c \in Children : SignalEnds(c)
    \/ WaitCall
    \/ WaitChild
    \/ FoldRc
    \/ ReturnAggregate
    \/ \E n \in AtOnce : InterruptCaught(n)
    \/ \E n \in AtOnce : InterruptUncaught(n)
    \/ Terminate
    \/ DrainCall
    \/ DrainWaitReturn
    \/ Tick
    \/ DrainTimeout
    \/ Kill
    \/ Return130

Spec == Init /\ [][Next]_vars

\* The loader alone.
NextEnv == LoadDotenv

SpecEnv == InitEnv /\ [][NextEnv]_vars

\* The except block of lines 146-160 keeps running: each of its statements
\* is executed once it can be, and time passes while main is blocked in
\* the wait of line 151; a bot that was sent SIGKILL or TerminateProcess
\* dies. Nothing else makes a bot exit, and nothing an interrupt arrive.
DrainProgress ==
    /\ WF_vars(\E c \in Children : SignalEnds(c))
    /\ WF_vars(Terminate)
    /\ WF_vars(DrainCall)
    /\ WF_vars(DrainWaitReturn)
    /\ WF_vars(Tick)
    /\ WF_vars(DrainTimeout)
    /\ WF_vars(Kill)
    /\ WF_vars(Return130)

SpecDrain == Init /\ [][Next]_vars /\ DrainProgress

\* ------------------------------------------------------------------ properties

Terminated == pc \in {"returned", "raised"}

\* The command line holds neither bot flag.
NeitherFlag == Times(argv, "--Twitch") = 0 /\ Times(argv, "--Wikimedia") = 0

\* What _load_dotenv does with the .env file of the run.
Loaded == load_dotenv(environ0, dotenv, posix)

\* C1: main is invoked with neither bot flag on a command line the parser
\* accepts, and no KeyboardInterrupt arrives: main returns 2 and no bot is
\* ever launched.
C1_NeitherFlagExitsTwo ==
    (/\ NeitherFlag
     /\ ~parse_args(argv).raised
     /\ interrupts = 0
     /\ Terminated) =>
        /\ pc = "returned"
        /\ result = UsageExit
        /\ \A c \in Children : child[c].spawns = 0

\* The exit code of the first requested bot, in request order, that exited
\* with a non-zero code; 0 when there is none.
FirstFailure ==
    IF args.twitch /\ child["twitch"].rc # 0
    THEN child["twitch"].rc
    ELSE IF args.wikimedia /\ child["wikimedia"].rc # 0
         THEN child["wikimedia"].rc
         ELSE 0

\* C2: every requested script exists and no interrupt arrives: main returns
\* the exit code of the first bot in request order that exited non-zero, 0
\* if all exited 0; the aggregate is assigned at most once.
C2_FirstFailureWins ==
    /\ folds <= 1
    /\ (/\ pc = "returned"
        /\ interrupts = 0
        /\ args.twitch \/ args.wikimedia
        /\ \A c \in Children : Requested(c) => exists[c])
       => result = FirstFailure

C2_Witness ==
    /\ pc = "returned"
    /\ interrupts = 0
    /\ args.twitch /\ args.wikimedia
    /\ child["twitch"].rc = 3
    /\ child["wikimedia"].rc = 5
    /\ result = 3

\* C3: no interrupt arrives: when main returns, every spawned bot has
\* exited and its status was collected, also after an earlier failure.
C3_AllWaitedBeforeReturn ==
    (pc = "returned" /\ interrupts = 0) =>
        \A c \in Children :
            child[c].spawns > 0 => child[c].state = "exited" /\ child[c].reaped

C3_Witness ==
    /\ pc = "returned"
    /\ interrupts = 0
    /\ child["twitch"].spawns = 1 /\ child["twitch"].rc = 3
    /\ child["wikimedia"].spawns = 1 /\ child["wikimedia"].reaped

\* C4: an interrupt reaches the supervisor in the waiting phase while both
\* bots are running: when main returns, neither is still running.
C4_NoneRunningAtReturn ==
    (pc = "returned" /\ interruptPc \in WaitPhase /\ running0 = Children) =>
        \A c \in Children : child[c].state = "exited"

\* C5: an interrupt during the waiting phase: main returns exactly 130,
\* whatever was folded into the aggregate before (it ends otherwise only by
\* a further interrupt raised out of the except block).
C5_InterruptReturns130 ==
    (interruptPc \in WaitPhase /\ Terminated) =>
        \/ pc = "returned" /\ result = 130
        \/ pc = "raised" /\ error = "KeyboardInterrupt" /\ interrupts > 1

C5_Witness ==
    /\ interruptPc = "waiting"
    /\ pc = "returned"
    /\ exit_code = 3
    /\ result = 130

\* C6: the script of a requested bot is missing when _spawn is called for
\* it: no process is ever launched for that bot, and unless a
\* KeyboardInterrupt ends _spawn before its check of line 85, the call ends
\* with FileNotFoundError, which ends main: no bot is ever waited on and
\* nothing is returned.
C6_MissingScriptIsFatal ==
    \A c \in attempted :
        ~exists[c] =>
            /\ child[c].state = "none" /\ child[c].spawns = 0
            /\ \/ pc = "spawning" /\ RequestOrder[idx] = c
               \/ interrupts > 0 /\ interruptPc = "spawning"
               \/ /\ pc = "raised"
                  /\ error = "FileNotFoundError"
                  /\ interrupts = 0
                  /\ waited = {}
                  /\ \A d \in Children : ~child[d].reaped

C6_Witness ==
    /\ "wikimedia" \in attempted
    /\ ~exists["wikimedia"]
    /\ child["twitch"].state = "running"
    /\ error = "FileNotFoundError"

\* C8: once main is in the except block, nothing that happens while it
\* signals, waits on or kills the bots makes it raise: it returns 130.
C8_DrainingNeverRaises ==
    (interruptPc \in SpawnPhase \cup WaitPhase /\ procs # <<>>) =>
        pc # "raised"

\* C9: each bot is spawned at most once in a run; an exited bot is never
\* launched again.
C9_SpawnedAtMostOnce ==
    \A c \in Children :
        /\ child[c].spawns <= 1
        /\ child[c].spawns = 1 <=> child[c].state # "none"

C9_Witness ==
    /\ pc = "waiting"
    /\ idx = 2
    /\ child["twitch"].reaped /\ child["twitch"].returncode = 5
    /\ child["wikimedia"].state = "running"
    /\ child["twitch"].spawns = 1

\* The lines of the .env file.
FileLines ==
    IF dotenv \in {NoFile, Unreadable, NotUtf8}
    THEN <<>>
    ELSE splitlines(read_text(dotenv))

\* C7: whatever the .env file holds, every key of the environment before
\* _load_dotenv has the same value after it; the loader only adds keys.
C7_NeverOverrides ==
    pc # "load" =>
        \A k \in DOMAIN environ0 :
            k \in DOMAIN environ /\ environ[k] = environ0[k]

C7_Witness ==
    /\ pc = "check"
    /\ dotenv = <<"K", "=", "\n", "'", "=">>
    /\ <<"K">> \in DOMAIN environ0
    /\ environ[<<"K">>] = <<"x">>
    /\ <<"'">> \in DOMAIN environ

\* The value C10 gives a stripped value v: without its outer pair when v
\* has at least two characters and starts and ends with the same quote
\* character, else v.
OuterPairRemoved(v) ==
    IF /\ Len(v) >= 2
       /\ \/ v[1] = "\"" /\ v[Len(v)] = "\""
          \/ v[1] = "'" /\ v[Len(v)] = "'"
    THEN [i \in 1..(Len(v) - 2) |-> v[i + 1]]
    ELSE v

\* The name of the variable line i of the file is about, as os.environ
\* spells it (on Windows in upper case).
LineKey(i) == encodekey(SplitKey(Strip(FileLines[i])), posix)

\* Line i of the file is the first KEY=VALUE line for its key.
FirstForKey(i) ==
    /\ ~Skipped(FileLines[i])
    /\ \A j \in 1..(i - 1) : Skipped(FileLines[j]) \/ LineKey(j) # LineKey(i)

\* C10: a line KEY=VALUE whose key is not yet defined sets KEY to the
\* stripped value with exactly one matching outer pair of quotes removed
\* (no second pass), and to the stripped value unchanged in every other
\* case, whatever the value and whatever the lines before it.
C10_OneQuotePairStripped ==
    pc # "load" =>
        \A i \in 1..Len(FileLines) :
            (FirstForKey(i) /\ LineKey(i) \notin DOMAIN environ0)
            => /\ LineKey(i) \in DOMAIN environ
               /\ environ[LineKey(i)]
                    = OuterPairRemoved(SplitVal(Strip(FileLines[i])))

\* A line C11 says contributes nothing: stripped, it is empty, starts with
\* "#", has no "=", or has only whitespace before its first "=".
Ignorable(raw) ==
    LET line == Strip(raw) IN
        \/ line = <<>>
        \/ line[1] = "#"
        \/ \A i \in 1..Len(line) : line[i] # "="
        \/ \E i \in 1..Len(line) :
              /\ line[i] = "="
              /\ \A j \in 1..(i - 1) : line[j] \in Whitespace

\* The text before the first "=" of a line, without the whitespace around
\* it.
KeyText(raw) ==
    LET line == Strip(raw)
        eq == CHOOSE i \in 1..Len(line) :
                  line[i] = "=" /\ \A j \in 1..(i - 1) : line[j] # "="
    IN Strip([j \in 1..(eq - 1) |-> line[j]])

\* The name of the variable a line is about, as os.environ spells it.
IgnorableKey(raw) == encodekey(KeyText(raw), posix)

\* What the loop of lines 38-55 has done when it comes to line i.
Before(i) == LoadLines(environ0, SubSeq(FileLines, 1, i - 1), posix)

\* C11: a line that is empty, a comment, without "=" or with an empty key
\* changes nothing in the environment and raises nothing, and the loader
\* goes on: the keys the loader adds are keys of the other lines, a loader
\* that returned has set the keys of all the other lines, also of those that
\* follow such a line, and a file of such lines alone leaves the
\* environment as it was and makes the loader return.
C11_IgnoredLinesChangeNothing ==
    pc # "load" =>
        /\ \A i \in 1..Len(FileLines) :
              (Ignorable(FileLines[i]) /\ Before(i).error = "none") =>
                  Before(i + 1) = Before(i)
        /\ \A k \in DOMAIN environ \ DOMAIN environ0 :
              \E i \in 1..Len(FileLines) :
                  ~Ignorable(FileLines[i]) /\ IgnorableKey(FileLines[i]) = k
        /\ error = "none" =>
              \A i \in 1..Len(FileLines) :
                  ~Ignorable(FileLines[i]) =>
                      IgnorableKey(FileLines[i]) \in DOMAIN environ
        /\ (/\ dotenv \notin {Unreadable, NotUtf8}
            /\ \A i \in 1..Len(FileLines) : Ignorable(FileLines[i])) =>
              environ = environ0 /\ pc = "check"

C11_Witness ==
    /\ pc = "check"
    /\ dotenv = <<"#", "=", "\n", "K", "=">>
    /\ environ0 = EmptyEnv
    /\ DOMAIN environ = {<<"K">>}

\* The bot the loop of the except block is at.
Current == procs[idx]

\* C12: in draining every bot still running has been sent the termination
\* request before the first grace wait begins; the forced kill goes only to
\* the bot whose own wait of line 151 has just run out; a bot whose exit
\* that wait collected is never sent the forced kill.
C12_TerminateAllThenWaitThenKill ==
    /\ [](pc \in {"drain", "draining", "kill", "return130"} =>
            \A i \in 1..Len(procs) :
                /\ child[procs[i]].state = "running" => child[procs[i]].term
                /\ ~(child[procs[i]].reaped /\ child[procs[i]].kill))
    /\ [][\A c \in Children :
            (child'[c].kill /\ ~child[c].kill) =>
                /\ pc = "kill"
                /\ c = Current
                /\ clock = deadline
                /\ ~child[c].reaped]_vars

C12_Witness ==
    /\ pc = "returned"
    /\ child["twitch"].term /\ child["twitch"].reaped
    /\ child["twitch"].rc = -15 /\ ~child["twitch"].kill
    /\ child["wikimedia"].term /\ child["wikimedia"].kill

\* C13 as stated: the 5 seconds of every bot count from the termination
\* requests, so later than 5 seconds after them every bot of procs has
\* exited or was sent the forced kill, however long the supervisor waited
\* on another bot.
C13_KilledFiveSecondsAfterRequests ==
    (InExcept /\ clock > 5) =>
        \A i \in 1..Len(procs) :
            child[procs[i]].state # "running" \/ child[procs[i]].kill

\* C13 as amended: the 5 seconds of a bot count from the moment the
\* supervisor starts to wait on that bot, and the waits follow one another:
\* the wait on the i-th bot of procs ends at most 5 * i seconds after the
\* termination requests, and the forced kill is sent exactly when it ends.
C13_GracePerWaitInSequence ==
    pc \in {"drain", "draining", "kill"} =>
        /\ clock <= deadline
        /\ pc # "drain" => deadline <= 5 * idx
        /\ pc = "kill" => clock = deadline
        /\ \A i \in 1..(idx - 1) :
              child[procs[i]].state = "exited" \/ child[procs[i]].kill

C13_Witness ==
    /\ pc = "kill"
    /\ idx = 2
    /\ clock = 10
    /\ child["twitch"].kill
    /\ child["wikimedia"].state = "running"

\* C14: both bots were requested and no interrupt has arrived: as long as
\* the Twitch bot runs, main is blocked on it, the first entry of procs: the
\* status of the Wikimedia bot is not collected, whatever it is, exit_code
\* is still 0 and main has not returned.
C14_WaitsInRequestOrder ==
    (/\ args.twitch /\ args.wikimedia
     /\ interrupts = 0
     /\ child["twitch"].state = "running") =>
        /\ ~child["wikimedia"].reaped
        /\ "wikimedia" \notin waited
        /\ exit_code = 0
        /\ pc # "returned"
        /\ pc \in WaitPhase => idx = 1 /\ procs = RequestOrder
        /\ pc # "fold"

C14_Witness ==
    /\ pc = "waiting"
    /\ idx = 1
    /\ interrupts = 0
    /\ child["twitch"].state = "running"
    /\ child["wikimedia"].state = "exited"
    /\ child["wikimedia"].rc = 5
    /\ ~child["wikimedia"].reaped

\* C15: both bots were requested, twitch.py is there and avicbotirc.py is
\* not, the loader raises nothing and no interrupt arrives: the run ends
\* with FileNotFoundError after the Twitch bot was launched, and that bot
\* was sent neither SIGTERM nor SIGKILL and was never waited on: it runs on
\* unless it ended by itself.
C15_SiblingLeftRunning ==
    (/\ args.twitch /\ args.wikimedia
     /\ exists["twitch"] /\ ~exists["wikimedia"]
     /\ interrupts = 0
     /\ Loaded.error = "none"
     /\ Terminated) =>
        /\ pc = "raised" /\ error = "FileNotFoundError"
        /\ procs = <<"twitch">>
        /\ child["twitch"].spawns = 1
        /\ child["wikimedia"].spawns = 0
        /\ ~child["twitch"].term /\ ~child["twitch"].kill
        /\ ~child["twitch"].reaped
        /\ waited = {}
        /\ \/ child["twitch"].state = "running"
           \/ child["twitch"].state = "exited" /\ child["twitch"].rc \in ExitCodes

C15_Witness ==
    /\ pc = "raised"
    /\ error = "FileNotFoundError"
    /\ interrupts = 0
    /\ procs = <<"twitch">>
    /\ child["twitch"].state = "running"
    /\ ~child["twitch"].term
    /\ waited = {}

\* C16: _load_dotenv runs once, before any bot is launched, and nothing
\* changes os.environ after it: once main is past line 124 it never comes
\* back to it and os.environ stays as it is, and every bot of the run was
\* launched with that environment: the one main was started with plus
\* what the loader added.
C16_EnvironmentWrittenOnce ==
    /\ [](\A c \in Children :
            child[c].spawns > 0 =>
                /\ pc \notin {"parse", "load"}
                /\ child[c].env = environ
                /\ Loaded.error = "none"
                /\ child[c].env = Loaded.env)
    /\ [][pc \notin {"parse", "load"} =>
             (pc' \notin {"parse", "load"} /\ environ' = environ)]_vars
    /\ [][pc = "load" =>
             (pc' \notin {"parse", "load"} /\ child' = child)]_vars
    /\ [][pc = "parse" => (environ' = environ /\ child' = child)]_vars

C16_Witness ==
    /\ environ0 = EmptyEnv
    /\ DOMAIN environ = {<<"K">>}
    /\ child["twitch"].state = "running"
    /\ child["wikimedia"].state = "running"
    /\ child["twitch"].env = environ
    /\ child["wikimedia"].env = environ

\* C17: on POSIX every launched bot leads a process group of its own, which
\* is neither the group of the supervisor nor the group of the other bot;
\* the SIGINT sent to the group of the supervisor reaches no bot; and a bot
\* is sent SIGTERM or SIGKILL only by the killpg main addresses to the group
\* of that bot, in _terminate (line 112) or after its wait timed out (157).
C17_OwnProcessGroup ==
    /\ [](posix =>
            \A c \in Children :
                child[c].spawns > 0 =>
                    /\ child[c].pgid = c
                    /\ child[c].pgid # SupervisorGroup
                    /\ \A d \in Children \ {c} : child[d].pgid # child[c].pgid
                    /\ ~child[c].sigint)
    /\ [][posix =>
            \A c \in Children :
                /\ (child'[c].term /\ ~child[c].term) =>
                       /\ pc = "terminate"
                       /\ c = Current
                       /\ child[c].pgid = c
                /\ (child'[c].kill /\ ~child[c].kill) =>
                       /\ pc = "kill"
                       /\ c = Current
                       /\ child[c].pgid = c]_vars

C17_Witness ==
    /\ posix
    /\ pc = "terminate"
    /\ idx = 2
    /\ running0 = Children
    /\ child["twitch"].term
    /\ child["twitch"].state = "running"
    /\ child["wikimedia"].state = "running"
    /\ ~child["wikimedia"].term
    /\ ~child["twitch"].sigint /\ ~child["wikimedia"].sigint

\* C18: a bot whose exit status main has collected, by the wait of line
\* 141, by the poll of _terminate or by the wait of line 151, is sent
\* neither SIGTERM nor SIGKILL from then on.
C18_NoSignalAfterReap ==
    [][\A c \in Children :
          child[c].reaped =>
              /\ child'[c].term = child[c].term
              /\ child'[c].kill = child[c].kill
              /\ child'[c].reaped]_vars

C18_Witness ==
    /\ pc = "returned"
    /\ result = InterruptExit
    /\ interruptPc = "waiting"
    /\ child["twitch"].reaped
    /\ child["twitch"].returncode = 3
    /\ ~child["twitch"].term /\ ~child["twitch"].kill
    /\ child["wikimedia"].kill

\* C19: both bots were requested and the one interrupt of the run arrives
\* in the spawning phase when the Twitch bot has been launched and the
\* Wikimedia bot has not: main returns 130, the Twitch bot was sent the
\* termination request (or found exited), was waited on and has exited or
\* was sent the forced kill, and the Wikimedia bot is never launched.
C19_InterruptWhileSpawning ==
    (/\ args.twitch /\ args.wikimedia
     /\ interrupts = 1
     /\ interruptPc \in SpawnPhase
     /\ child["twitch"].spawns = 1
     /\ child["wikimedia"].spawns = 0
     /\ Terminated) =>
        /\ pc = "returned"
        /\ result = InterruptExit
        /\ child["twitch"].term \/ child["twitch"].reaped
        /\ "twitch" \in waited
        /\ child["twitch"].state = "exited" \/ child["twitch"].kill

\* C20: once main is in the except block it ends: it returns (or a further
\* interrupt ends it), whatever the bots do, also when a bot ignores the
\* termination request and never exits. The waits of the except block take
\* at most GracePeriod seconds for each bot of procs, and main goes on to
\* the next bot, never back to the wait, after the forced kill.
C20_DrainingEnds ==
    /\ [](InExcept => <>(pc = "returned" \/ error = "KeyboardInterrupt"))
    /\ [](InExcept => clock <= GracePeriod * Len(procs))
    /\ [][pc = "kill" =>
             \/ pc' \in {"kill", "return130", "raised"}
             \/ pc' = "drain" /\ idx' = idx + 1]_vars

C20_Witness ==
    /\ pc = "returned"
    /\ result = InterruptExit
    /\ posix
    /\ clock = GracePeriod * 2
    /\ \A c \in Children :
          /\ child[c].term /\ child[c].kill
          /\ child[c].rc = SigKillCode

====
